---- MODULE Spec2Model ----
(***************************************************************************)
(* Model of src/memory.rs: the system-wide collector MemoryStats and the   *)
(* per-process collector ProcessMemoryStats.  Each update() call is one    *)
(* action.  Text is modelled as sequences of one-character strings, u64    *)
(* values as naturals below 2^U64Bits (a scaled-down word), and the build  *)
(* profile (overflow checks on or off) as a value fixed at start.          *)
(***************************************************************************)
EXTENDS Integers, Sequences, FiniteSets, TLC

\* ------------------------------------------------------------------ bounds
\* Width of the scaled-down machine word standing for u64.
U64Bits == 4
\* Work done on a record over its lifetime: one unit for each update call
\* and one for each input line handed to it.
MaxWork == 3

RECURSIVE Pow2(_)
Pow2(n) == IF n = 0 THEN 1 ELSE 2 * Pow2(n - 1)

U64Modulus == Pow2(U64Bits)
U64Max == U64Modulus - 1

\* ------------------------------------------------------------- u64 arithmetic
\* a - b on u64: overflows exactly when b > a; the release profile wraps.
SubOverflows(a, b) == b > a
WrappingSub(a, b) == (a - b + U64Modulus) % U64Modulus
\* a + b on u64: overflows exactly when the sum exceeds u64::MAX.
AddOverflows(a, b) == a + b > U64Max
WrappingAdd(a, b) == (a + b) % U64Modulus

\* ------------------------------------------------------------------- text
IsWhitespace(c) == c \in {" ", "\t", "\n", "\r"}

\* str::split_whitespace: the maximal runs of non-whitespace characters.
RECURSIVE Tokens(_, _, _)
Tokens(cs, i, cur) ==
    IF i > Len(cs) THEN (IF cur = <<>> THEN <<>> ELSE <<cur>>)
    ELSE IF IsWhitespace(cs[i])
         THEN (IF cur = <<>> THEN Tokens(cs, i + 1, <<>>)
                             ELSE <<cur>> \o Tokens(cs, i + 1, <<>>))
         ELSE Tokens(cs, i + 1, Append(cur, cs[i]))

SplitWhitespace(cs) == Tokens(cs, 1, <<>>)

DigitValue(c) ==
    CASE c = "0" -> 0 [] c = "1" -> 1 [] c = "2" -> 2 [] c = "3" -> 3
      [] c = "4" -> 4 [] c = "5" -> 5 [] c = "6" -> 6 [] c = "7" -> 7
      [] c = "8" -> 8 [] c = "9" -> 9 [] OTHER -> -1

ParseErr == [ok |-> FALSE, v |-> 0]

\* The digit loop of u64::from_str: checked multiply-and-add, most
\* significant digit first; a non-digit or an overflow is an error.
RECURSIVE Accumulate(_, _, _)
Accumulate(ds, i, acc) ==
    IF i > Len(ds) THEN [ok |-> TRUE, v |-> acc]
    ELSE LET d == DigitValue(ds[i]) IN
         IF d < 0 THEN ParseErr
         ELSE IF acc * 10 + d > U64Max THEN ParseErr
         ELSE Accumulate(ds, i + 1, acc * 10 + d)

\* ParseU64 with a failed parse read as 0, as value.parse().unwrap_or(0).
ParseU64Lenient(tok) ==
    IF tok = <<>> THEN [ok |-> TRUE, v |-> 0]
    ELSE LET ds == IF tok[1] = "+" THEN Tail(tok) ELSE tok
             r  == IF ds = <<>> THEN ParseErr ELSE Accumulate(ds, 1, 0)
         IN  [ok |-> TRUE, v |-> r.v]

\* str::parse::<u64>: an optional leading '+', then at least one digit.
ParseU64(tok) ==
    IF tok = <<>> THEN ParseErr
    ELSE LET ds == IF tok[1] = "+" THEN Tail(tok) ELSE tok IN
         IF ds = <<>> THEN ParseErr ELSE Accumulate(ds, 1, 0)

\* ------------------------------------------------------- system collector
KMemTotal     == <<"M","e","m","T","o","t","a","l",":">>
KMemFree      == <<"M","e","m","F","r","e","e",":">>
KMemAvailable == <<"M","e","m","A","v","a","i","l","a","b","l","e",":">>
KMemUsed      == <<"M","e","m","U","s","e","d",":">>
KShmem        == <<"S","h","m","e","m",":">>
KBuffers      == <<"B","u","f","f","e","r","s",":">>
KCached       == <<"C","a","c","h","e","d",":">>
KSwapTotal    == <<"S","w","a","p","T","o","t","a","l",":">>
KSwapFree     == <<"S","w","a","p","F","r","e","e",":">>
KZswap        == <<"Z","s","w","a","p",":">>
KZswapped     == <<"Z","s","w","a","p","p","e","d",":">>
KSwapCached   == <<"S","w","a","p","C","a","c","h","e","d",":">>

\* The keys with an arm in the match of update.
MatchedKeys ==
    {KMemTotal, KMemFree, KMemAvailable, KMemUsed, KShmem, KBuffers, KCached,
     KSwapTotal, KSwapFree, KZswap, KZswapped, KSwapCached}

RECURSIVE Gcd(_, _)
Gcd(a, b) == IF b = 0 THEN a ELSE Gcd(b, a % b)

\* zswap as f64 / zswap_compressed as f64: NaN for 0/0, infinity for x/0,
\* otherwise the quotient (kept as a reduced fraction).
F64Div(n, d) ==
    IF d = 0
    THEN [kind |-> IF n = 0 THEN "nan" ELSE "inf", num |-> 0, den |-> 0]
    ELSE [kind |-> "finite", num |-> n \div Gcd(n, d), den |-> d \div Gcd(n, d)]

\* #[derive(Default)] on MemoryStats: every integer 0, the ratio 0.0.
MemoryStatsDefault ==
    [total |-> 0, free |-> 0, available |-> 0, used |-> 0, shared |-> 0,
     buffers |-> 0, cached |-> 0, swap_total |-> 0, swap_free |-> 0,
     zswap |-> 0, zswap_compressed |-> 0, swap_cached |-> 0,
     compression_ratio |-> [kind |-> "finite", num |-> 0, den |-> 1],
     swap_used |-> 0, totalvmem |-> 0, freevmem |-> 0, usedvmem |-> 0,
     availablevmem |-> 0]

\* MemoryStats::new
MemoryStatsNew == MemoryStatsDefault

\* SetField with `+=` for `=` in the MemTotal, MemFree and Cached arms.
SetFieldSumming(s, key, v) ==
    CASE key = KMemTotal     -> [s EXCEPT !.total = (s.total + v) % U64Modulus]
      [] key = KMemFree      -> [s EXCEPT !.free = (s.free + v) % U64Modulus]
      [] key = KMemAvailable -> [s EXCEPT !.available = v]
      [] key = KMemUsed      -> [s EXCEPT !.used = v]
      [] key = KShmem        -> [s EXCEPT !.shared = v]
      [] key = KBuffers      -> [s EXCEPT !.buffers = v]
      [] key = KCached       -> [s EXCEPT !.cached = (s.cached + v) % U64Modulus]
      [] key = KSwapTotal    -> [s EXCEPT !.swap_total = v]
      [] key = KSwapFree     -> [s EXCEPT !.swap_free = v]
      [] key = KZswap        -> [s EXCEPT !.zswap_compressed = v]
      [] key = KZswapped     -> [s EXCEPT !.zswap = v]
      [] key = KSwapCached   -> [s EXCEPT !.swap_cached = v]
      [] OTHER               -> s

\* The arms of `match key`: the field the key's value is stored in.
SetField(s, key, v) ==
    CASE key = KMemTotal     -> [s EXCEPT !.total = v]
      [] key = KMemFree      -> [s EXCEPT !.free = v]
      [] key = KMemAvailable -> [s EXCEPT !.available = v]
      [] key = KMemUsed      -> [s EXCEPT !.used = v]
      [] key = KShmem        -> [s EXCEPT !.shared = v]
      [] key = KBuffers      -> [s EXCEPT !.buffers = v]
      [] key = KCached       -> [s EXCEPT !.cached = v]
      [] key = KSwapTotal    -> [s EXCEPT !.swap_total = v]
      [] key = KSwapFree     -> [s EXCEPT !.swap_free = v]
      [] key = KZswap        -> [s EXCEPT !.zswap_compressed = v]
      [] key = KZswapped     -> [s EXCEPT !.zswap = v]
      [] key = KSwapCached   -> [s EXCEPT !.swap_cached = v]
      [] OTHER               -> s

\* MatchKey with an error in the `_` arm: an unmatched key is a bad format.
MatchKeyStrict(s, key, value) ==
    IF key \notin MatchedKeys THEN [outcome |-> "BadFileFormat", stats |-> s]
    ELSE LET p == ParseU64(value) IN
         IF ~p.ok THEN [outcome |-> "InvalidNumber", stats |-> s]
         ELSE [outcome |-> "Ok", stats |-> SetField(s, key, p.v)]

\* The `match key` of lines 47-61 on one line's key and value tokens: an
\* unmatched key changes nothing, a matched one stores the parsed value.
MatchKey(s, key, value) ==
    IF key \notin MatchedKeys THEN [outcome |-> "Ok", stats |-> s]
    ELSE LET p == ParseU64(value) IN
         IF ~p.ok THEN [outcome |-> "InvalidNumber", stats |-> s]
         ELSE [outcome |-> "Ok", stats |-> SetField(s, key, p.v)]

\* The `for line in contents.lines()` loop from line i on.  `at` is the
\* index of the line the loop returned at, 0 when it ran to the end.
RECURSIVE ParseLines(_, _, _)
ParseLines(s, lines, i) ==
    IF i > Len(lines) THEN [outcome |-> "Ok", stats |-> s, at |-> 0]
    ELSE LET split == SplitWhitespace(lines[i]) IN
         IF Len(split) < 2
         THEN [outcome |-> "BadFileFormat", stats |-> s, at |-> i]
         ELSE LET m == MatchKey(s, split[1], split[2]) IN
              IF m.outcome # "Ok"
              THEN [outcome |-> m.outcome, stats |-> s, at |-> i]
              ELSE ParseLines(m.stats, lines, i + 1)

\* DeriveUsed with saturating subtraction: used is 0 when the difference
\* would be negative.
DeriveUsedClamped(s) ==
    [ovf |-> FALSE,
     s   |-> [s EXCEPT !.used =
                 IF s.free + s.buffers + s.cached > s.total THEN 0
                 ELSE s.total - s.free - s.buffers - s.cached]]

\* Line 63, self.used = self.total - self.free - self.buffers - self.cached:
\* whether one of its three subtractions overflows, and the record after it
\* with wrapping arithmetic.
DeriveUsed(s) ==
    LET a == WrappingSub(s.total, s.free)
        b == WrappingSub(a, s.buffers)
    IN  [ovf |-> \/ SubOverflows(s.total, s.free)
                 \/ SubOverflows(a, s.buffers)
                 \/ SubOverflows(b, s.cached),
         s   |-> [s EXCEPT !.used = WrappingSub(b, s.cached)]]

\* The n-th of the seven assignments after the loop (lines 63-69), as
\* [ovf, s]: whether its arithmetic overflows, and the record after it with
\* wrapping arithmetic.
DeriveStep(s, n) ==
    CASE n = 1 -> DeriveUsed(s)
      [] n = 2 -> [ovf |-> SubOverflows(s.swap_total, s.swap_free),
                   s   |-> [s EXCEPT !.swap_used =
                               WrappingSub(s.swap_total, s.swap_free)]]
      [] n = 3 -> [ovf |-> FALSE,
                   s   |-> [s EXCEPT !.compression_ratio =
                               F64Div(s.zswap, s.zswap_compressed)]]
      [] n = 4 -> [ovf |-> AddOverflows(s.total, s.swap_total),
                   s   |-> [s EXCEPT !.totalvmem =
                               WrappingAdd(s.total, s.swap_total)]]
      [] n = 5 -> [ovf |-> AddOverflows(s.free, s.swap_free),
                   s   |-> [s EXCEPT !.freevmem =
                               WrappingAdd(s.free, s.swap_free)]]
      [] n = 6 -> [ovf |-> AddOverflows(s.used, s.swap_used),
                   s   |-> [s EXCEPT !.usedvmem =
                               WrappingAdd(s.used, s.swap_used)]]
      [] n = 7 -> [ovf |-> AddOverflows(s.available, s.swap_free),
                   s   |-> [s EXCEPT !.availablevmem =
                               WrappingAdd(s.available, s.swap_free)]]

\* Assignments n..7.  With overflow checks an overflowing one panics and the
\* record keeps what was assigned before it; without, the value wraps.
RECURSIVE Derive(_, _, _)
Derive(s, n, checks) ==
    IF n > 7 THEN [outcome |-> "Ok", stats |-> s, at |-> 0]
    ELSE LET r == DeriveStep(s, n) IN
         IF r.ovf /\ checks THEN [outcome |-> "Panic", stats |-> s, at |-> 0]
         ELSE Derive(r.s, n + 1, checks)

\* MemoryStats::update on record s, /proc/meminfo holding `lines`.
MemoryStatsUpdate(s, lines, checks) ==
    LET parsed == ParseLines(s, lines, 1) IN
    IF parsed.outcome # "Ok" THEN parsed
    ELSE Derive(parsed.stats, 1, checks)

\* ------------------------------------------------------ process collector
\* The cap of `if self.command.len() > 50 { self.command.truncate(50) }`.
CommandCap == 50

\* #[derive(Default)] on ProcessMemoryStats.  Strings are byte sequences.
ProcessMemoryStatsDefault ==
    [pid |-> 0, username |-> <<>>, command |-> <<>>,
     swap |-> 0, uss |-> 0, pss |-> 0, rss |-> 0]

\* ProcessMemoryStats::new
ProcessMemoryStatsNew == ProcessMemoryStatsDefault

\* A UTF-8 continuation byte, 0x80..0xBF.
IsContinuationByte(b) == b >= 128 /\ b < 192

\* str::is_char_boundary(index), index counted from 0.
IsCharBoundary(bytes, index) ==
    IF index = 0 THEN TRUE
    ELSE IF index >= Len(bytes) THEN index = Len(bytes)
    ELSE ~IsContinuationByte(bytes[index + 1])

\* Lines 171-174: the command after the length test and String::truncate,
\* which asserts that the cut falls on a character boundary.
TruncateCommand(name) ==
    IF Len(name) > CommandCap
    THEN IF IsCharBoundary(name, CommandCap)
         THEN [panic |-> FALSE, command |-> SubSeq(name, 1, CommandCap)]
         ELSE [panic |-> TRUE, command |-> name]
    ELSE [panic |-> FALSE, command |-> name]

\* utils::parse_value, which is outside src/: the first whitespace-separated
\* token of the rest of the line, parsed as u64.
ParseValue(cs) ==
    LET split == SplitWhitespace(cs) IN
    IF split = <<>> THEN ParseErr ELSE ParseU64(split[1])

PRss       == <<"R","s","s",":"," "," "," "," "," "," ">>
PPss       == <<"P","s","s",":"," "," "," "," "," "," ">>
PPrivateCl == <<"P","r","i","v","a","t","e","_","C","l">>
PPrivateDi == <<"P","r","i","v","a","t","e","_","D","i">>
PSwap      == <<"S","w","a","p",":"," "," "," "," "," ">>

\* &line[from..] with from counted from 0.
SliceFrom(line, from) == SubSeq(line, from + 1, Len(line))

\* The `while reader.read_line(&mut line)? > 0` loop from line i on, with
\* mem_values = mv = <<rss, pss, uss, swap>>.
RECURSIVE ScanLines(_, _, _, _)
ScanLines(mv, lines, i, checks) ==
    IF i > Len(lines) THEN [outcome |-> "Ok", mem_values |-> mv, at |-> 0]
    ELSE LET line == lines[i] IN
         IF Len(line) < 10
         THEN [outcome |-> "Panic", mem_values |-> mv, at |-> i]
         ELSE LET prefix == SubSeq(line, 1, 10) IN
              IF prefix = PRss
              THEN LET p == ParseValue(SliceFrom(line, 5)) IN
                   IF ~p.ok
                   THEN [outcome |-> "InvalidNumber", mem_values |-> mv, at |-> i]
                   ELSE ScanLines([mv EXCEPT ![1] = p.v], lines, i + 1, checks)
              ELSE IF prefix = PPss
              THEN LET p == ParseValue(SliceFrom(line, 5)) IN
                   IF ~p.ok
                   THEN [outcome |-> "InvalidNumber", mem_values |-> mv, at |-> i]
                   ELSE ScanLines([mv EXCEPT ![2] = p.v], lines, i + 1, checks)
              ELSE IF prefix = PPrivateCl \/ prefix = PPrivateDi
              THEN IF Len(line) < 14
                   THEN [outcome |-> "Panic", mem_values |-> mv, at |-> i]
                   ELSE LET p == ParseValue(SliceFrom(line, 14)) IN
                        IF ~p.ok
                        THEN [outcome |-> "InvalidNumber", mem_values |-> mv,
                              at |-> i]
                        ELSE IF AddOverflows(mv[3], p.v) /\ checks
                        THEN [outcome |-> "Panic", mem_values |-> mv, at |-> i]
                        ELSE ScanLines([mv EXCEPT ![3] = WrappingAdd(mv[3], p.v)],
                                       lines, i + 1, checks)
              ELSE IF prefix = PSwap
              THEN LET p == ParseValue(SliceFrom(line, 6)) IN
                   IF ~p.ok
                   THEN [outcome |-> "InvalidNumber", mem_values |-> mv, at |-> i]
                   ELSE ScanLines([mv EXCEPT ![4] = p.v], lines, i + 1, checks)
              ELSE ScanLines(mv, lines, i + 1, checks)

\* ProcessMemoryStats::update on record s for process `pid`: `cmd` is what
\* get_cmd returns, `file` what opening /proc/<pid>/smaps_rollup gives.
ProcessMemoryStatsUpdate(s, pid, cmd, file, checks) ==
    IF ~cmd.ok THEN [outcome |-> "ProcessLookupFailed", stats |-> s, at |-> 0]
    ELSE LET t  == TruncateCommand(cmd.name)
             s1 == [s EXCEPT !.command = t.command]
         IN
         IF t.panic THEN [outcome |-> "Panic", stats |-> s1, at |-> 0]
         ELSE LET s2 == [s1 EXCEPT !.pid = pid] IN
              IF ~file.ok
              THEN [outcome |-> "SourceUnavailable", stats |-> s2, at |-> 0]
              ELSE LET scan == ScanLines(<<0, 0, 0, 0>>, file.lines, 1, checks) IN
                   IF scan.outcome # "Ok"
                   THEN [outcome |-> scan.outcome, stats |-> s2, at |-> scan.at]
                   ELSE [outcome |-> "Ok",
                         stats   |-> [s2 EXCEPT !.rss  = scan.mem_values[1],
                                                !.pss  = scan.mem_values[2],
                                                !.uss  = scan.mem_values[3],
                                                !.swap = scan.mem_values[4]],
                         at      |-> 0]

\* ------------------------------------------------------------------ inputs
Spaces(n) == [i \in 1..n |-> " "]

\* A /proc/meminfo line: "Key:   value kB".
MemLine(key, value) == key \o Spaces(3) \o value \o <<" ", "k", "B">>

KDirty == <<"D","i","r","t","y",":">>

\* The lines /proc/meminfo is made of in the runs explored.
MemLineSet ==
    { MemLine(KMemTotal, <<"3">>),     MemLine(KMemTotal, <<"1">>),
      MemLine(KMemFree, <<"1">>),      MemLine(KMemFree, <<"2">>),
      MemLine(KMemAvailable, <<"2">>), MemLine(KMemUsed, <<"7">>),
      MemLine(KShmem, <<"1">>),        MemLine(KBuffers, <<"1">>),
      MemLine(KCached, <<"1">>),       MemLine(KSwapTotal, <<"2">>),
      MemLine(KSwapFree, <<"1">>),     MemLine(KSwapFree, <<"3">>),
      MemLine(KZswap, <<"2">>),        MemLine(KZswapped, <<"3">>),
      MemLine(KSwapCached, <<"1">>),
      MemLine(KMemTotal, <<"a","b","c">>),
      MemLine(KMemUsed, <<"-","1">>),
      MemLine(KCached, <<"9","9">>),
      KMemFree,
      MemLine(KDirty, <<"5">>),
      MemLine(KDirty, <<"a","b","c">>),
      <<"F","o","o">>,
      <<>> }

\* All sequences of at most n elements of S.
SeqsUpTo(S, n) == UNION {[1..k -> S] : k \in 0..n}

\* What reading /proc/meminfo gives: an error, or the text as its lines.
MemSources(n) ==
    {[ok |-> FALSE, lines |-> <<>>]}
        \cup {[ok |-> TRUE, lines |-> c] : c \in SeqsUpTo(MemLineSet, n)}

\* A /proc/<pid>/smaps_rollup line as the kernel prints it: the label padded
\* to 16 columns, the value right-aligned in 8, " kB" and the newline.
SmapsLine(label, value) ==
    label \o Spaces(16 - Len(label)) \o Spaces(8 - Len(value)) \o value
          \o <<" ", "k", "B", "\n">>

LRss          == <<"R","s","s",":">>
LPss          == <<"P","s","s",":">>
LPrivateClean == <<"P","r","i","v","a","t","e","_","C","l","e","a","n",":">>
LPrivateDirty == <<"P","r","i","v","a","t","e","_","D","i","r","t","y",":">>
LSwap         == <<"S","w","a","p",":">>
LSharedClean  == <<"S","h","a","r","e","d","_","C","l","e","a","n",":">>

SmapsLineSet ==
    { SmapsLine(LRss, <<"9">>),          SmapsLine(LRss, <<"4">>),
      SmapsLine(LPss, <<"5">>),
      SmapsLine(LPrivateClean, <<"9">>), SmapsLine(LPrivateClean, <<"7">>),
      SmapsLine(LPrivateDirty, <<"4">>),
      SmapsLine(LSwap, <<"2">>),
      SmapsLine(LSharedClean, <<"6">>),
      SmapsLine(LRss, <<"a","b","c">>),
      <<"[","r","o","l","l","u","p","]","\n">>,
      PPrivateCl \o <<"\n">>,
      <<"V","m","F","l","a","g","s",":"," ","\n">>,
      <<"\n">> }

SmapsSources(n) ==
    {[ok |-> FALSE, lines |-> <<>>]}
        \cup {[ok |-> TRUE, lines |-> c] : c \in SeqsUpTo(SmapsLineSet, n)}

Repeat(b, n) == [i \in 1..n |-> b]

\* What get_cmd returns: an error, or a command line as UTF-8 bytes
\* (97 is "a"; 195, 169 is the two-byte character U+00E9).
CmdResults ==
    { [ok |-> FALSE, name |-> <<>>],
      [ok |-> TRUE, name |-> Repeat(97, 3)],
      [ok |-> TRUE, name |-> Repeat(97, CommandCap)],
      [ok |-> TRUE, name |-> Repeat(97, CommandCap + 1)],
      [ok |-> TRUE, name |-> Repeat(97, CommandCap - 1) \o <<195, 169>>],
      [ok |-> TRUE, name |-> Repeat(97, CommandCap - 2) \o <<195, 169, 97>>] }

PidSet == {1, 2}

\* ------------------------------------------------------------------- state
VARIABLES
    overflow_checks,  \* whether the build panics on integer overflow
    mem,              \* the MemoryStats record
    mem_before,       \* the record as the last MemoryStats::update found it
    meminfo,          \* what that call read from /proc/meminfo
    mem_result,       \* how that call ended
    pms,              \* the ProcessMemoryStats record
    pms_before,       \* the record as the last update found it
    pms_args,         \* that call's pid, and what get_cmd returned to it
    smaps,            \* what that call read from /proc/<pid>/smaps_rollup
    pms_result,       \* how that call ended
    work              \* update calls made so far, plus the lines they read

vars == <<overflow_checks, mem, mem_before, meminfo, mem_result,
          pms, pms_before, pms_args, smaps, pms_result, work>>

NoResult == [outcome |-> "None", at |-> 0]
NoSource == [ok |-> FALSE, lines |-> <<>>]

Init ==
    /\ overflow_checks \in BOOLEAN
    /\ mem = MemoryStatsNew
    /\ mem_before = MemoryStatsNew
    /\ meminfo = NoSource
    /\ mem_result = NoResult
    /\ pms = ProcessMemoryStatsNew
    /\ pms_before = ProcessMemoryStatsNew
    /\ pms_args = [pid |-> 0, cmd |-> [ok |-> FALSE, name |-> <<>>]]
    /\ smaps = NoSource
    /\ pms_result = NoResult
    /\ work = 0

\* A panic ends the program.
Panicked == mem_result.outcome = "Panic" \/ pms_result.outcome = "Panic"

\* One call of MemoryStats::update.
MemUpdate ==
    /\ ~Panicked
    /\ work < MaxWork
    /\ \E src \in MemSources(MaxWork - work - 1) :
          LET r == IF src.ok
                   THEN MemoryStatsUpdate(mem, src.lines, overflow_checks)
                   ELSE [outcome |-> "SourceUnavailable", stats |-> mem, at |-> 0]
          IN  /\ mem' = r.stats
              /\ mem_before' = mem
              /\ meminfo' = src
              /\ mem_result' = [outcome |-> r.outcome, at |-> r.at]
              /\ work' = work + 1 + Len(src.lines)
    /\ UNCHANGED <<overflow_checks, pms, pms_before, pms_args, smaps, pms_result>>

\* Whether update gets as far as File::open: get_cmd succeeded and the
\* truncation did not panic.
OpensSmaps(cmd) == cmd.ok /\ ~TruncateCommand(cmd.name).panic

\* One call of ProcessMemoryStats::update.
ProcUpdate ==
    /\ ~Panicked
    /\ work < MaxWork
    /\ \E pid \in PidSet, cmd \in CmdResults :
       \E src \in IF OpensSmaps(cmd) THEN SmapsSources(MaxWork - work - 1)
                                     ELSE {NoSource} :
          LET r == ProcessMemoryStatsUpdate(pms, pid, cmd, src, overflow_checks)
          IN  /\ pms' = r.stats
              /\ pms_before' = pms
              /\ pms_args' = [pid |-> pid, cmd |-> cmd]
              /\ smaps' = src
              /\ pms_result' = [outcome |-> r.outcome, at |-> r.at]
              /\ work' = work + 1 + Len(src.lines)
    /\ UNCHANGED <<overflow_checks, mem, mem_before, meminfo, mem_result>>

Next == MemUpdate \/ ProcUpdate

Spec == Init /\ [][Next]_vars

\* ------------------------------------------- the inputs, as the claims read them
FirstToken(line) ==
    LET split == SplitWhitespace(line) IN
    IF split = <<>> THEN <<>> ELSE split[1]

SecondToken(line) ==
    LET split == SplitWhitespace(line) IN
    IF Len(split) < 2 THEN <<>> ELSE split[2]

DigitChars == {"0", "1", "2", "3", "4", "5", "6", "7", "8", "9"}

Unsigned(tok) == IF tok # <<>> /\ tok[1] = "+" THEN Tail(tok) ELSE tok

\* The number a string of decimal digits denotes, unbounded.
RECURSIVE DecimalValue(_)
DecimalValue(ds) ==
    IF ds = <<>> THEN 0
    ELSE 10 * DecimalValue(SubSeq(ds, 1, Len(ds) - 1)) + DigitValue(ds[Len(ds)])

\* tok is a decimal integer that fits the unsigned word.
IsU64Token(tok) ==
    /\ Unsigned(tok) # <<>>
    /\ \A i \in 1..Len(Unsigned(tok)) : Unsigned(tok)[i] \in DigitChars
    /\ DecimalValue(Unsigned(tok)) <= U64Max

\* The indices of the lines whose first token is key.
LinesWithKey(lines, key) == {i \in 1..Len(lines) : FirstToken(lines[i]) = key}

Max(S) == CHOOSE x \in S : \A y \in S : y <= x

\* The value of the last line carrying key.
LastValue(lines, key) ==
    DecimalValue(Unsigned(SecondToken(lines[Max(LinesWithKey(lines, key))])))

\* The raw fields of MemoryStats, each with the key spec.md gives it.
RawKeys ==
    [total |-> KMemTotal, free |-> KMemFree, available |-> KMemAvailable,
     shared |-> KShmem, buffers |-> KBuffers, cached |-> KCached,
     swap_total |-> KSwapTotal, swap_free |-> KSwapFree,
     swap_cached |-> KSwapCached, zswap |-> KZswapped,
     zswap_compressed |-> KZswap]

RawFields == DOMAIN RawKeys

DerivedFields ==
    {"used", "swap_used", "totalvmem", "freevmem", "usedvmem", "availablevmem"}

MemCalled == mem_result.outcome # "None"
MemOk == mem_result.outcome = "Ok"

\* The sequence lines without the elements at the indices in drop.
RECURSIVE Without(_, _, _)
Without(lines, drop, i) ==
    IF i > Len(lines) THEN <<>>
    ELSE (IF i \in drop THEN <<>> ELSE <<lines[i]>>) \o Without(lines, drop, i + 1)

\* ------------------------------------------------------------------ claims

\* C1: when the system update fails with BadFileFormat or InvalidNumber,
\* every field of the record equals its value before the call.
C1_NoPartialRecordOnError ==
    mem_result.outcome \in {"BadFileFormat", "InvalidNumber"} => mem = mem_before

\* C3: whenever the parsed raw fields have free + buffers + cached > total or
\* swap_free > swap_total, the system update completes with Ok and used and
\* swap_used hold the wrapped differences, not zero.
C3_UnderflowCompletes ==
    ( /\ mem_result.outcome \in {"Ok", "Panic"}
      /\ \/ mem.free + mem.buffers + mem.cached > mem.total
         \/ mem.swap_free > mem.swap_total )
    => /\ mem_result.outcome = "Ok"
       /\ mem.used = (mem.total - mem.free - mem.buffers - mem.cached) % U64Modulus
       /\ mem.swap_used = (mem.swap_total - mem.swap_free) % U64Modulus

\* A line that is not a recognized key line: blank, or with a first token
\* that is not one of the keys update matches.
IsUnrecognizedLine(line) == FirstToken(line) \notin MatchedKeys

\* How the system update of the last call would have ended on the same
\* record had the lines at the indices in drop not been in the input.
MemUpdateWithout(drop) ==
    MemoryStatsUpdate(mem_before, Without(meminfo.lines, drop, 1), overflow_checks)

\* C4, as claimed: removing every blank line and every line whose first
\* token is not a recognized key from the input changes neither how the
\* system update ends nor the record it leaves.
C4_UnrecognizedLinesNeverMatter ==
    (MemCalled /\ meminfo.ok)
    => LET r == MemUpdateWithout({i \in 1..Len(meminfo.lines) :
                                     IsUnrecognizedLine(meminfo.lines[i])})
       IN  r.outcome = mem_result.outcome /\ r.stats = mem

\* C4, amended: removing every line that has at least two tokens and a first
\* token that is not a matched key changes neither how the system update
\* ends nor the record it leaves; a line with fewer than two tokens, a blank
\* one included, stops the update, with BadFileFormat when it is the line
\* the update returns at.
C4_TwoTokenUnrecognizedLinesNeverMatter ==
    (MemCalled /\ meminfo.ok)
    => /\ LET r == MemUpdateWithout(
                      {i \in 1..Len(meminfo.lines) :
                          /\ Len(SplitWhitespace(meminfo.lines[i])) >= 2
                          /\ IsUnrecognizedLine(meminfo.lines[i])})
          IN  r.outcome = mem_result.outcome /\ r.stats = mem
       /\ \A i \in 1..Len(meminfo.lines) :
             Len(SplitWhitespace(meminfo.lines[i])) < 2
             => /\ mem_result.outcome \in {"BadFileFormat", "InvalidNumber"}
                /\ mem_result.at \in 1..i
                /\ mem_result.at = i => mem_result.outcome = "BadFileFormat"

\* An update that ran past an unrecognized two-token line, stored the value
\* of the recognized line after it, and ended Ok.
C4_Witness ==
    /\ MemOk
    /\ Len(meminfo.lines) = 2
    /\ FirstToken(meminfo.lines[1]) = KDirty
    /\ FirstToken(meminfo.lines[2]) = KMemTotal
    /\ mem.total = 3

\* C6: after a successful system update each raw field whose key occurs in
\* the input equals the value of the last line carrying that key, and when
\* the lines carry pairwise distinct keys the update of the same record on
\* any re-ordering of them leaves the same record.
C6_LastOccurrenceWins ==
    MemOk
    => /\ \A f \in RawFields :
             LinesWithKey(meminfo.lines, RawKeys[f]) # {}
             => mem[f] = LastValue(meminfo.lines, RawKeys[f])
       /\ LET n == Len(meminfo.lines) IN
          (\A i, j \in 1..n :
              i # j => FirstToken(meminfo.lines[i]) # FirstToken(meminfo.lines[j]))
          => \A p \in {q \in [1..n -> 1..n] : \A i, j \in 1..n : i # j => q[i] # q[j]} :
                LET r == MemoryStatsUpdate(mem_before,
                                           [i \in 1..n |-> meminfo.lines[p[i]]],
                                           overflow_checks)
                IN  r.outcome = "Ok" /\ r.stats = mem

\* A successful update whose input repeats a key with two different values,
\* the second of which is the one the record holds.
C6_Witness ==
    /\ MemOk
    /\ Len(meminfo.lines) = 2
    /\ FirstToken(meminfo.lines[1]) = KMemTotal
    /\ FirstToken(meminfo.lines[2]) = KMemTotal
    /\ SecondToken(meminfo.lines[1]) = <<"3">>
    /\ SecondToken(meminfo.lines[2]) = <<"1">>
    /\ mem.total = 1

\* C7: after every successful system update, used + free + buffers + cached
\* equals total in 64-bit unsigned arithmetic, also when the input carries a
\* MemUsed: line.
C7_UsedIdentity ==
    MemOk => (mem.used + mem.free + mem.buffers + mem.cached) % U64Modulus = mem.total

\* A successful update whose input carries "MemUsed: 7" and a MemFree line,
\* with free above total, so that used is the wrapped difference.
C7_Witness ==
    /\ MemOk
    /\ LinesWithKey(meminfo.lines, KMemUsed) # {}
    /\ LinesWithKey(meminfo.lines, KMemFree) # {}
    /\ mem.free > mem.total
    /\ mem.used # 7

\* C10: after any successful system update, also one that is not the first
\* on its record, every raw field whose key does not occur in that call's
\* input is 0, and with no recognized key in the input the derived integer
\* fields are 0 too.
C10_AbsentKeysAreZero ==
    MemOk
    => /\ \A f \in RawFields :
             LinesWithKey(meminfo.lines, RawKeys[f]) = {} => mem[f] = 0
       /\ (\A i \in 1..Len(meminfo.lines) : IsUnrecognizedLine(meminfo.lines[i]))
          => \A f \in RawFields \cup DerivedFields : mem[f] = 0

\* --------------------------------------------------- process collector claims
PmsCalled == pms_result.outcome # "None"
PmsOk == pms_result.outcome = "Ok"

Measured == {"rss", "pss", "uss", "swap"}

\* The line without its newline.
LineText(line) ==
    IF line # <<>> /\ line[Len(line)] = "\n" THEN SubSeq(line, 1, Len(line) - 1)
    ELSE line

\* C2: a region-summary line shorter than 10 characters is skipped: the
\* process update ends as it would, and leaves rss, pss, uss and swap as it
\* would, had the short lines not been in the input.
C2_ShortLinesSkipped ==
    ( /\ PmsCalled
      /\ smaps.ok
      /\ \E i \in 1..Len(smaps.lines) : Len(LineText(smaps.lines[i])) < 10 )
    => LET drop == {i \in 1..Len(smaps.lines) : Len(LineText(smaps.lines[i])) < 10}
           r    == ProcessMemoryStatsUpdate(
                       pms_before, pms_args.pid, pms_args.cmd,
                       [ok |-> TRUE, lines |-> Without(smaps.lines, drop, 1)],
                       overflow_checks)
       IN  /\ pms_result.outcome = r.outcome
           /\ \A f \in Measured : pms[f] = r.stats[f]

\* The sum of the values of the lines at the indices in S.
RECURSIVE SumOfValues(_, _)
SumOfValues(lines, S) ==
    IF S = {} THEN 0
    ELSE LET i == Max(S) IN
         DecimalValue(Unsigned(SecondToken(lines[i]))) + SumOfValues(lines, S \ {i})

LastOrZero(lines, label) ==
    IF LinesWithKey(lines, label) = {} THEN 0 ELSE LastValue(lines, label)

\* C5: after a successful process update uss is the sum of the values of all
\* Private_Clean and Private_Dirty lines of the input, and rss, pss and swap
\* are the value of the last Rss, Pss and Swap line, 0 without one, whatever
\* the record held before.
C5_SumAndLastValues ==
    PmsOk
    => /\ pms.uss = SumOfValues(smaps.lines,
                        LinesWithKey(smaps.lines, LPrivateClean)
                            \cup LinesWithKey(smaps.lines, LPrivateDirty))
       /\ pms.rss = LastOrZero(smaps.lines, LRss)
       /\ pms.pss = LastOrZero(smaps.lines, LPss)
       /\ pms.swap = LastOrZero(smaps.lines, LSwap)

\* The characters of a UTF-8 string that start within its first k bytes.
CharsWithin(bytes, k) == Cardinality({i \in 1..k : ~IsContinuationByte(bytes[i])})

\* The first n characters of a UTF-8 string.
FirstChars(bytes, n) ==
    SubSeq(bytes, 1, Max({k \in 0..Len(bytes) : CharsWithin(bytes, k) <= n}))

\* C8: whatever name the lookup returns, the truncation does not fail, and
\* after a successful process update command is the first 50 characters of
\* that name.
C8_CommandIsFirst50Chars ==
    (PmsCalled /\ pms_args.cmd.ok)
    => /\ ~(pms_result.outcome = "Panic" /\ pms_result.at = 0)
       /\ PmsOk => pms.command = FirstChars(pms_args.cmd.name, CommandCap)

\* A system-summary line with a matched key and a value token that is not
\* an unsigned decimal integer of the word's width.
BadNumberMemLine(line) ==
    /\ Len(SplitWhitespace(line)) >= 2
    /\ FirstToken(line) \in MatchedKeys
    /\ ~IsU64Token(SecondToken(line))

\* The same for a region-summary line.
BadNumberSmapsLine(line) ==
    /\ Len(SplitWhitespace(line)) >= 2
    /\ FirstToken(line) \in {LRss, LPss, LPrivateClean, LPrivateDirty, LSwap}
    /\ ~IsU64Token(SecondToken(line))

\* C9: an update whose input holds a recognized line with an invalid value
\* token stops at that line or before it; when it stops at that line it
\* fails with InvalidNumber, and the record is what the lines before it
\* made of it (the system record) or has its measured fields untouched (the
\* process record): the field is not zeroed and no later line is applied.
C9_InvalidNumberIsFatal ==
    /\ (MemCalled /\ meminfo.ok)
       => \A i \in 1..Len(meminfo.lines) :
             BadNumberMemLine(meminfo.lines[i])
             => /\ mem_result.outcome \in {"BadFileFormat", "InvalidNumber"}
                /\ mem_result.at \in 1..i
                /\ mem_result.at = i
                   => /\ mem_result.outcome = "InvalidNumber"
                      /\ mem = ParseLines(mem_before,
                                          SubSeq(meminfo.lines, 1, i - 1), 1).stats
    /\ (PmsCalled /\ smaps.ok)
       => \A i \in 1..Len(smaps.lines) :
             BadNumberSmapsLine(smaps.lines[i])
             => /\ pms_result.outcome \in {"InvalidNumber", "Panic"}
                /\ pms_result.at \in 1..i
                /\ pms_result.at = i
                   => /\ pms_result.outcome = "InvalidNumber"
                      /\ \A f \in Measured : pms[f] = pms_before[f]

\* A system update that stored "MemTotal: 3" and then failed with
\* InvalidNumber at the "MemTotal: abc" after it, leaving total at 3.
C9_Witness ==
    /\ mem_result = [outcome |-> "InvalidNumber", at |-> 2]
    /\ FirstToken(meminfo.lines[1]) = KMemTotal
    /\ SecondToken(meminfo.lines[2]) = <<"a", "b", "c">>
    /\ mem.total = 3

====
